---- MODULE Spec2Model ----
(***************************************************************************)
(* Calculator server with history (src/calculator_server.py).              *)
(*                                                                         *)
(* The state is the module-level list calculation_history; the operations  *)
(* are the four branches of handle_call_tool plus its fall-through for an  *)
(* unknown tool name.  safe_eval is a pure function of the expression.     *)
(*                                                                         *)
(* Strings that the code inspects character by character (the expression)  *)
(* are sequences of one-character strings.  JSON numbers are records       *)
(* [t, n, d]: t is the Python type ("int" or "float"), n/d the value.      *)
(***************************************************************************)
EXTENDS Integers, Sequences, FiniteSets, TLC

VARIABLES calculation_history, now, last

vars == <<calculation_history, now, last>>

(* ---------------------------- bounds ----------------------------------- *)

\* number of clock ticks (= number of records ever appended) explored
MaxClock == 3
\* longest expression string explored by the evaluator specification
MaxLen == 3
\* integer limits -MaxLimit..MaxLimit are passed to get_history
MaxLimit == 3

(* ---------------------------- numbers ---------------------------------- *)

PyInt(k) == [t |-> "int", n |-> k, d |-> 1]

PyFloat(n, d) == [t |-> "float", n |-> n, d |-> d]

\* the value None of result = None
PyNone == [t |-> "None", n |-> 0, d |-> 1]

RECURSIVE Gcd(_, _)
Gcd(a, b) == IF b = 0 THEN a ELSE Gcd(b, a % b)

Abs(k) == IF k < 0 THEN -k ELSE k

\* a float with value n/d, in lowest terms, d > 0
Ratio(n, d) ==
    LET s == IF d < 0 THEN -1 ELSE 1
        g == Gcd(Abs(n), Abs(d))
    IN  PyFloat((s * n) \div g, (s * d) \div g)

\* float(result) of an int
ToFloat(x) == PyFloat(x.n, x.d)

\* number < 0
IsNegative(x) == x.n < 0

\* number != int(number): int() truncates toward zero
TruncInt(x) == IF x.n >= 0 THEN x.n \div x.d ELSE -((-x.n) \div x.d)

DiffersFromInt(x) == x.n # TruncInt(x) * x.d

RECURSIVE Factorial(_)
Factorial(k) == IF k <= 1 THEN 1 ELSE k * Factorial(k - 1)

RECURSIVE IntPow(_, _)
IntPow(b, k) == IF k = 0 THEN 1 ELSE b * IntPow(b, k - 1)

(* ------------------------- the ledger state ---------------------------- *)

\* the clock ticks twice a second; isoformat()[:19] keeps whole seconds
TicksPerSecond == 2

Record(ts, expression, result) ==
    [timestamp |-> ts, expression |-> expression, result |-> result]

\* arguments.get(key, default)
Get(arguments, key, default) ==
    IF key \in DOMAIN arguments THEN arguments[key] ELSE default

NoArgs == [k \in {} |-> 0]

NoErr == <<>>

\* a returned [TextContent]; tag is the leading emoji, shown what it renders
TextResult(tag, shown, err) ==
    [kind |-> "text", tag |-> tag, shown |-> shown, err |-> err]

\* an exception that leaves handle_call_tool
Raised(err) ==
    [kind |-> "raise", tag |-> "exception", shown |-> <<>>, err |-> err]

Invocation(name, arguments, outcome, evald) ==
    [name |-> name, arguments |-> arguments, outcome |-> outcome,
     evald |-> evald]

(* ------------------------------ safe_eval ------------------------------ *)

Digits == {"0", "1", "2", "3", "4", "5", "6", "7", "8", "9"}

LowerLetters ==
    {"a", "b", "c", "d", "e", "f", "g", "h", "i", "j", "k", "l", "m",
     "n", "o", "p", "q", "r", "s", "t", "u", "v", "w", "x", "y", "z"}

\* the allowed characters with the argument separator added
allowed_chars_comma ==
    Digits \cup {"+", "-", "*", "/", "(", ")", ".", " ", ","}
           \cup {"s", "q", "r", "t", "a", "b", "o", "u", "n", "d", "m",
                 "i", "x", "p", "w", "c", "l", "g", "e"}

\* set('0123456789+-*/(). sqrtabsroundminmaxpowsincostanlogexplasinacosatan')
allowed_chars ==
    Digits \cup {"+", "-", "*", "/", "(", ")", ".", " "}
           \cup {"s", "q", "r", "t", "a", "b", "o", "u", "n", "d", "m",
                 "i", "x", "p", "w", "c", "l", "g", "e"}

\* expression.replace(' ', '')
clean_expr(expression) == SelectSeq(expression, LAMBDA c : c # " ")

\* index of the first character the validation loop rejects, 0 if none
FirstInvalid(clean) ==
    LET bad == {i \in 1..Len(clean) : clean[i] \notin allowed_chars}
    IN  IF bad = {} THEN 0 ELSE CHOOSE i \in bad : \A j \in bad : i <= j

\* the functions of safe_dict
SafeFunctions ==
    {<<"a", "b", "s">>, <<"r", "o", "u", "n", "d">>, <<"m", "i", "n">>,
     <<"m", "a", "x">>, <<"p", "o", "w">>, <<"s", "q", "r", "t">>,
     <<"s", "i", "n">>, <<"c", "o", "s">>, <<"t", "a", "n">>,
     <<"a", "s", "i", "n">>, <<"a", "c", "o", "s">>, <<"a", "t", "a", "n">>,
     <<"l", "o", "g">>, <<"l", "o", "g", "1", "0">>, <<"e", "x", "p">>}

\* the constants of safe_dict; the doubles are stood for by near fractions
SafeConstants == {<<"p", "i">>, <<"e">>}

ConstantValue(name) ==
    IF name = <<"p", "i">> THEN PyFloat(355, 113) ELSE PyFloat(193, 71)

PyFunction == [t |-> "function", n |-> 0, d |-> 1]

DigitVal(c) ==
    CASE c = "0" -> 0 [] c = "1" -> 1 [] c = "2" -> 2 [] c = "3" -> 3
      [] c = "4" -> 4 [] c = "5" -> 5 [] c = "6" -> 6 [] c = "7" -> 7
      [] c = "8" -> 8 [] c = "9" -> 9

\* first index >= i whose character is outside cs, Len(s) + 1 if none
RECURSIVE RunEnd(_, _, _)
RunEnd(s, i, cs) ==
    IF i > Len(s) \/ s[i] \notin cs THEN i ELSE RunEnd(s, i + 1, cs)

RECURSIVE DecimalValue(_, _, _)
DecimalValue(s, i, j) ==
    IF j < i THEN 0 ELSE 10 * DecimalValue(s, i, j - 1) + DigitVal(s[j])

Token(k, v, s) == [k |-> k, v |-> v, s |-> s]

BadToken == Token("bad", 0, <<>>)

\* Tokens of the expression sub-language that is evaluated here: decimal
\* integer literals, identifiers, + and -, blanks.  A literal running into a
\* letter ("1n") or with a leading zero ("01") is a SyntaxError, as is any
\* other character.
RECURSIVE Lex(_, _)
Lex(s, i) ==
    IF i > Len(s) THEN <<>>
    ELSE IF s[i] = " " THEN Lex(s, i + 1)
    ELSE IF s[i] \in Digits THEN
        LET j == RunEnd(s, i, Digits)
            zeros == \A k \in i..(j - 1) : s[k] = "0"
        IN  IF (j <= Len(s) /\ s[j] \in LowerLetters)
               \/ (s[i] = "0" /\ ~zeros)
            THEN <<BadToken>>
            ELSE <<Token("num", DecimalValue(s, i, j - 1), <<>>)>>
                     \o Lex(s, j)
    ELSE IF s[i] \in LowerLetters THEN
        LET j == RunEnd(s, i, LowerLetters \cup Digits)
        IN  <<Token("name", 0, SubSeq(s, i, j - 1))>> \o Lex(s, j)
    ELSE IF s[i] = "+" THEN <<Token("op", 1, <<>>)>> \o Lex(s, i + 1)
    ELSE IF s[i] = "-" THEN <<Token("op", -1, <<>>)>> \o Lex(s, i + 1)
    ELSE <<BadToken>>

\* the grammar: (op* atom) (op op* atom)*
RECURSIVE WellFormed(_, _, _)
WellFormed(toks, i, expOperand) ==
    IF i > Len(toks) THEN ~expOperand
    ELSE IF toks[i].k = "bad" THEN FALSE
    ELSE IF toks[i].k = "op" THEN WellFormed(toks, i + 1, TRUE)
    ELSE expOperand /\ WellFormed(toks, i + 1, FALSE)

\* name lookup in eval_globals: safe_dict over empty builtins
Lookup(tok) ==
    IF tok.k = "num" THEN [ok |-> TRUE, val |-> PyInt(tok.v), exc |-> ""]
    ELSE IF tok.s \in SafeFunctions
        THEN [ok |-> TRUE, val |-> PyFunction, exc |-> ""]
    ELSE IF tok.s \in SafeConstants
        THEN [ok |-> TRUE, val |-> ConstantValue(tok.s), exc |-> ""]
    ELSE [ok |-> FALSE, val |-> PyNone, exc |-> "NameError"]

\* sign * x for sign in {1, -1}; the type of x is kept
Signed(sign, x) == [t |-> x.t, n |-> sign * x.n, d |-> x.d]

\* x + y: int with int is int, anything with a float is a float
Add(x, y) ==
    IF x.t = "int" /\ y.t = "int" THEN PyInt(x.n + y.n)
    ELSE Ratio(x.n * y.d + y.n * x.d, x.d * y.d)

\* evaluates a well-formed token sequence left to right; the first
\* exception wins
RECURSIVE Run(_, _, _, _, _, _, _)
Run(toks, i, acc, hasAcc, binop, sign, hasUnary) ==
    IF i > Len(toks) THEN [ok |-> TRUE, val |-> acc, exc |-> ""]
    ELSE IF toks[i].k = "op" THEN
        IF hasAcc /\ binop = 0
        THEN Run(toks, i + 1, acc, hasAcc, toks[i].v, 1, FALSE)
        ELSE Run(toks, i + 1, acc, hasAcc, binop, sign * toks[i].v, TRUE)
    ELSE
        LET a == Lookup(toks[i])
        IN  IF ~a.ok THEN a
            ELSE IF hasUnary /\ a.val.t = "function"
                THEN [ok |-> FALSE, val |-> PyNone, exc |-> "TypeError"]
            ELSE IF ~hasAcc
                THEN Run(toks, i + 1, Signed(sign, a.val), TRUE, 0, 1, FALSE)
            ELSE IF acc.t = "function" \/ a.val.t = "function"
                THEN [ok |-> FALSE, val |-> PyNone, exc |-> "TypeError"]
            ELSE Run(toks, i + 1,
                     Add(acc, Signed(binop * sign, a.val)), TRUE, 0, 1, FALSE)

\* eval(expression, eval_globals, {}) followed by float(result)
Eval(expression) ==
    LET toks == Lex(expression, 1)
    IN  IF ~WellFormed(toks, 1, TRUE)
        THEN [ok |-> FALSE, val |-> PyNone, exc |-> "SyntaxError"]
        ELSE LET r == Run(toks, 1, PyNone, FALSE, 0, 1, FALSE)
             IN  IF ~r.ok THEN r
                 ELSE IF r.val.t = "function"
                     THEN [ok |-> FALSE, val |-> PyNone, exc |-> "TypeError"]
                 ELSE [ok |-> TRUE, val |-> ToFloat(r.val), exc |-> ""]

\* safe_eval: the value, or the ValueError every failure is wrapped in;
\* evald tells whether eval() was reached
safe_eval(expression) ==
    LET clean == clean_expr(expression)
        i == FirstInvalid(clean)
    IN  IF i # 0
        THEN [ok |-> FALSE, val |-> PyNone, evald |-> FALSE,
              err |-> <<"Error evaluating expression",
                        "Invalid character in expression", clean[i]>>]
        ELSE LET r == Eval(expression)
             IN  IF r.ok
                 THEN [ok |-> TRUE, val |-> r.val, evald |-> TRUE,
                       err |-> NoErr]
                 ELSE [ok |-> FALSE, val |-> PyNone, evald |-> TRUE,
                       err |-> <<"Error evaluating expression", r.exc>>]

(* --------------------------- number formatting ------------------------- *)

DigitChar(k) == <<"0", "1", "2", "3", "4", "5", "6", "7", "8", "9">>[k + 1]

RECURSIVE NatStr(_)
NatStr(k) ==
    IF k < 10 THEN <<DigitChar(k)>>
    ELSE NatStr(k \div 10) \o <<DigitChar(k % 10)>>

\* str() of a number inside an f-string: 3, -1, 2.0, 3.5 (floats with at
\* most one decimal digit, and math.e)
NumStr(x) ==
    LET a == Abs(x.n)
        sgn == IF x.n < 0 THEN <<"-">> ELSE <<>>
    IN  IF x.t = "None" THEN <<"None">>
        ELSE IF x = PyFloat(193, 71) THEN <<"2", ".", "718281828459045">>
        ELSE IF x.t = "int" THEN sgn \o NatStr(a)
        ELSE sgn \o NatStr(a \div x.d) \o <<".">>
                 \o NatStr(((a % x.d) * 10) \div x.d)

(* ------------------------------ math module ---------------------------- *)

\* math.e, as in ConstantValue
MathE == PyFloat(193, 71)

Ok(v) == [ok |-> TRUE, val |-> v, exc |-> ""]

Exc(e) == [ok |-> FALSE, val |-> PyNone, exc |-> e]

\* largest exponent tried when a logarithm is looked up
MaxExp == 6

\* the k with b^k = x, for integers x >= 1 and b >= 2 where it exists
ExactLog(x, b) == CHOOSE k \in 0..MaxExp : IntPow(b, k) = x

\* math.pow(x, y) for an integral y, and the domain errors of the others
MathPow(x, y) ==
    IF y.d # 1 THEN
        IF x.n < 0 THEN Exc("math domain error")
        ELSE Ok(Ratio(CHOOSE r \in 0..(x.n + 1) :
                          IntPow(r, y.d) = IntPow(x.n, Abs(y.n)), 1))
    ELSE IF y.n >= 0 THEN Ok(Ratio(IntPow(x.n, y.n), IntPow(x.d, y.n)))
    ELSE IF x.n = 0 THEN Exc("math domain error")
    ELSE Ok(Ratio(IntPow(x.d, -y.n), IntPow(x.n, -y.n)))

\* math.log10(x)
MathLog10(x) ==
    IF x.n <= 0 THEN Exc("math domain error")
    ELSE Ok(Ratio(ExactLog(x.n, 10), 1))

\* math.log(x): only log(1) is a fraction
MathLog(x) ==
    IF x.n <= 0 THEN Exc("math domain error")
    ELSE Ok(Ratio(CHOOSE k \in {0} : x.n = x.d, 1))

\* math.log(x, base) = log(x) / log(base)
MathLogBase(x, base) ==
    IF x.n <= 0 \/ base.n <= 0 THEN Exc("math domain error")
    ELSE IF base.n = base.d THEN Exc("float division by zero")
    ELSE Ok(Ratio(ExactLog(x.n, base.n), 1))

(* ------------------------------ the handlers --------------------------- *)

\* the default of arguments.get("limit", 10)
DefaultLimit == 10

\* one numbered entry of history_text; calc['timestamp'][:19] drops the
\* fraction of a second
HistoryLine(i, calc) ==
    [i |-> i, expression |-> calc.expression, result |-> calc.result,
     time |-> calc.timestamp \div TicksPerSecond]

\* calculation_history.insert(0, {...}): the record goes to the front
AppendRecordFront(history, ts, expression, result) ==
    <<Record(ts, expression, result)>> \o history

\* calculation_history.append({"timestamp": ..., "expression": ...,
\* "result": ...})
AppendRecord(history, ts, expression, result) ==
    Append(history, Record(ts, expression, result))

\* name == "calculate"
Calculate(arguments) ==
    IF "expression" \notin DOMAIN arguments
    THEN /\ last' = Invocation("calculate", arguments,
                        TextResult("error", <<>>, <<"KeyError", "expression">>),
                        FALSE)
         /\ UNCHANGED <<calculation_history, now>>
    ELSE LET expression == arguments["expression"]
             r == safe_eval(expression)
         IN  IF r.ok
             THEN /\ now < MaxClock
                  /\ calculation_history' =
                         AppendRecord(calculation_history, now,
                                      expression, r.val)
                  /\ now' = now + 1
                  /\ last' = Invocation("calculate", arguments,
                                 TextResult("ok",
                                     <<[expression |-> expression,
                                        result |-> r.val]>>, NoErr),
                                 r.evald)
             ELSE /\ last' = Invocation("calculate", arguments,
                                 TextResult("error", <<>>, r.err), r.evald)
                  /\ UNCHANGED <<calculation_history, now>>

\* calculation_history[:limit]: the oldest records instead of the newest
SliceFirst(lst, start) ==
    LET n == Len(lst)
        k == IF -start < 0 THEN 0 ELSE IF -start > n THEN n ELSE -start
    IN  SubSeq(lst, 1, k)

\* lst[start:] as Python slices a list
SliceFrom(lst, start) ==
    LET n == Len(lst)
        s0 == IF start < 0 THEN start + n ELSE start
        s1 == IF s0 < 0 THEN 0 ELSE IF s0 > n THEN n ELSE s0
    IN  SubSeq(lst, s1 + 1, n)

\* what get_history returns (or raises) for a ledger and its arguments
HistoryOutcome(history, arguments) ==
    LET limit == Get(arguments, "limit", PyInt(DefaultLimit))
    IN  IF history # <<>> /\ limit.t # "int"
        THEN Raised(<<"TypeError", "slice indices must be integers">>)
        ELSE LET recent_history ==
                     IF history # <<>> THEN SliceFrom(history, -limit.n)
                     ELSE <<>>
             IN  IF recent_history = <<>>
                 THEN TextResult("nohistory", <<>>, NoErr)
                 ELSE TextResult("history",
                          [i \in 1..Len(recent_history) |->
                             HistoryLine(i, recent_history[i])],
                          NoErr)

\* a get_history that takes the records it shows out of the ledger
GetHistoryDrain(arguments) ==
    LET out == HistoryOutcome(calculation_history, arguments)
    IN  /\ last' = Invocation("get_history", arguments, out, FALSE)
        /\ calculation_history' =
               SubSeq(calculation_history, 1,
                      Len(calculation_history) - Len(out.shown))
        /\ UNCHANGED now

\* name == "get_history"
GetHistory(arguments) ==
    /\ last' = Invocation("get_history", arguments,
                   HistoryOutcome(calculation_history, arguments), FALSE)
    /\ UNCHANGED <<calculation_history, now>>

\* calculation_history = [] binds a local name; the ledger is untouched
ClearHistoryLocal(arguments) ==
    /\ last' = Invocation("clear_history", arguments,
                   TextResult("cleared", <<>>, NoErr), FALSE)
    /\ UNCHANGED <<calculation_history, now>>

\* name == "clear_history"
ClearHistory(arguments) ==
    /\ calculation_history' = <<>>
    /\ last' = Invocation("clear_history", arguments,
                   TextResult("cleared", <<>>, NoErr), FALSE)
    /\ UNCHANGED now

\* the operation branches of advanced_calculate: the value of result
AdvancedResult(operation, number, arguments) ==
    IF operation = "factorial" THEN
        IF IsNegative(number) \/ DiffersFromInt(number)
        THEN Exc("Factorial requires non-negative integer")
        ELSE Ok(PyInt(Factorial(TruncInt(number))))
    ELSE IF operation = "power" THEN
        MathPow(number, Get(arguments, "exponent", PyInt(2)))
    ELSE IF operation = "logarithm" THEN
        LET base == Get(arguments, "base", PyInt(10))
        IN  IF base.n = 10 /\ base.d = 1 THEN MathLog10(number)
            ELSE IF base.n = MathE.n /\ base.d = MathE.d THEN MathLog(number)
            ELSE MathLogBase(number, base)
    ELSE Ok(PyNone)

\* calc_info, as the pieces it is concatenated from
CalcInfo(operation, number, arguments) ==
    <<operation, "(">> \o NumStr(number)
    \o (IF operation = "power"
        THEN <<", ">> \o NumStr(Get(arguments, "exponent", PyInt(2)))
        ELSE IF operation = "logarithm"
        THEN <<", base=">> \o NumStr(Get(arguments, "base", PyInt(10)))
        ELSE <<>>)
    \o <<")">>

\* an advanced_calculate that records in a finally clause, error or not
AdvancedCalculateFinally(arguments) ==
    IF "operation" \notin DOMAIN arguments \/ "number" \notin DOMAIN arguments
    THEN /\ last' = Invocation("advanced_calculate", arguments,
                        TextResult("error", <<>>,
                            <<"KeyError",
                              IF "operation" \notin DOMAIN arguments
                              THEN "operation" ELSE "number">>),
                        FALSE)
         /\ UNCHANGED <<calculation_history, now>>
    ELSE LET operation == arguments["operation"]
             number == arguments["number"]
             r == AdvancedResult(operation, number, arguments)
             calc_info == CalcInfo(operation, number, arguments)
         IN  /\ now < MaxClock
             /\ calculation_history' =
                    AppendRecord(calculation_history, now, calc_info, r.val)
             /\ now' = now + 1
             /\ last' = Invocation("advanced_calculate", arguments,
                            IF r.ok
                            THEN TextResult("ok",
                                     <<[expression |-> calc_info,
                                        result |-> r.val]>>, NoErr)
                            ELSE TextResult("error", <<>>, <<r.exc>>),
                            FALSE)

\* name == "advanced_calculate"
AdvancedCalculate(arguments) ==
    IF "operation" \notin DOMAIN arguments \/ "number" \notin DOMAIN arguments
    THEN /\ last' = Invocation("advanced_calculate", arguments,
                        TextResult("error", <<>>,
                            <<"KeyError",
                              IF "operation" \notin DOMAIN arguments
                              THEN "operation" ELSE "number">>),
                        FALSE)
         /\ UNCHANGED <<calculation_history, now>>
    ELSE LET operation == arguments["operation"]
             number == arguments["number"]
             r == AdvancedResult(operation, number, arguments)
             calc_info == CalcInfo(operation, number, arguments)
         IN  IF r.ok
             THEN /\ now < MaxClock
                  /\ calculation_history' =
                         AppendRecord(calculation_history, now,
                                      calc_info, r.val)
                  /\ now' = now + 1
                  /\ last' = Invocation("advanced_calculate", arguments,
                                 TextResult("ok",
                                     <<[expression |-> calc_info,
                                        result |-> r.val]>>, NoErr),
                                 FALSE)
             ELSE /\ last' = Invocation("advanced_calculate", arguments,
                                 TextResult("error", <<>>, <<r.exc>>), FALSE)
                  /\ UNCHANGED <<calculation_history, now>>

\* any other name falls through to the last return
UnknownTool(name, arguments) ==
    /\ last' = Invocation(name, arguments,
                   TextResult("unknown", <<>>, NoErr), FALSE)
    /\ UNCHANGED <<calculation_history, now>>

(* ------------------------------- inputs -------------------------------- *)

Expressions ==
    {<<"1", "+", "2">>, <<"1", " ", "-", "-", "2">>, <<"1", "+">>, <<"n">>,
     <<"1", ",", "2">>, <<"A">>, <<"1", " ", "2">>}

CalculateArgs == {NoArgs} \cup {[expression |-> e] : e \in Expressions}

LimitArgs ==
    {NoArgs} \cup {[limit |-> PyInt(k)] : k \in (-MaxLimit)..MaxLimit}
             \cup {[limit |-> PyFloat(5, 2)], [limit |-> PyFloat(2, 1)]}

AdvancedArgs ==
    {NoArgs,
     [operation |-> "power"],
     [operation |-> "factorial", number |-> PyInt(3)],
     [operation |-> "factorial", number |-> PyInt(-1)],
     [operation |-> "factorial", number |-> PyFloat(7, 2)],
     [operation |-> "power", number |-> PyFloat(7, 2)],
     [operation |-> "power", number |-> PyInt(0), exponent |-> PyInt(-1)],
     [operation |-> "logarithm", number |-> PyInt(100)],
     [operation |-> "logarithm", number |-> PyInt(0)],
     [operation |-> "logarithm", number |-> PyInt(8), base |-> PyInt(2)],
     [operation |-> "logarithm", number |-> PyInt(4), base |-> PyInt(1)],
     [operation |-> "logarithm", number |-> PyInt(1), base |-> MathE],
     [operation |-> "sqrt", number |-> PyInt(4)]}

UnknownNames == {"history", "reset"}

(* --------------------------- the specification ------------------------- *)

NoInvocation == Invocation("", NoArgs, TextResult("", <<>>, NoErr), FALSE)

Init ==
    /\ calculation_history = <<>>
    /\ now = 0
    /\ last = NoInvocation

CalculateStep == \E a \in CalculateArgs : Calculate(a)

GetHistoryStep == \E a \in LimitArgs : GetHistory(a)

ClearHistoryStep == ClearHistory(NoArgs)

AdvancedCalculateStep == \E a \in AdvancedArgs : AdvancedCalculate(a)

UnknownToolStep == \E n \in UnknownNames : UnknownTool(n, NoArgs)

\* handle_call_tool: one invocation at a time
Next ==
    \/ CalculateStep
    \/ GetHistoryStep
    \/ ClearHistoryStep
    \/ AdvancedCalculateStep
    \/ UnknownToolStep

Spec == Init /\ [][Next]_vars

(* ------------------- the evaluator on its own inputs ------------------- *)

Alphabet == {"1", "2", "+", "-", " ", "n", "k", "A", ","}

\* every string over Alphabet of at most MaxLen characters
InputStrings == UNION {[1..k -> Alphabet] : k \in 0..MaxLen}

\* a calculate request that has arrived and is not yet handled
Pending(arguments) ==
    Invocation("", arguments, TextResult("", <<>>, NoErr), FALSE)

InitEval ==
    /\ calculation_history = <<>>
    /\ now = 0
    /\ \E e \in InputStrings : last = Pending([expression |-> e])

CalculatePending ==
    /\ last.name = ""
    /\ Calculate(last.arguments)

NextEval == CalculatePending

SpecEval == InitEval /\ [][NextEval]_vars

(* ------------------------------ properties ----------------------------- *)

Min(a, b) == IF a < b THEN a ELSE b

IsPrefix(s, t) == Len(s) <= Len(t) /\ SubSeq(t, 1, Len(s)) = s

LastIs(name) == last.name = name

LimitGiven == "limit" \in DOMAIN last.arguments

\* C1: get_history with an integer limit >= 1 (given, or the default)
\* returns exactly the last min(limit, N) records of the ledger, oldest of
\* the window first.
C1_RecentWindow ==
    LET limit == Get(last.arguments, "limit", PyInt(DefaultLimit))
        N == Len(calculation_history)
        k == Min(limit.n, N)
    IN  (LastIs("get_history") /\ limit.t = "int" /\ limit.n >= 1) =>
            /\ last.outcome.kind = "text"
            /\ Len(last.outcome.shown) = k
            /\ \A i \in 1..k :
                  /\ last.outcome.shown[i].i = i
                  /\ last.outcome.shown[i].expression =
                         calculation_history[N - k + i].expression
                  /\ last.outcome.shown[i].result =
                         calculation_history[N - k + i].result

\* three records in the ledger, limit 2: the window is the last two
C1_Witness ==
    /\ LastIs("get_history")
    /\ LimitGiven
    /\ last.arguments = [limit |-> PyInt(2)]
    /\ Len(calculation_history) = 3
    /\ Len(last.outcome.shown) = 2
    /\ calculation_history[1].expression # calculation_history[2].expression

\* C2: clear_history always leaves the ledger empty and returns its text,
\* and a get_history on the empty ledger returns no records and does not
\* raise, whatever its limit.
C2_ClearEmpties ==
    [][/\ last'.name = "clear_history" =>
             /\ calculation_history' = <<>>
             /\ last'.outcome.kind = "text"
             /\ last'.outcome.tag = "cleared"
       /\ (calculation_history = <<>> /\ last'.name = "get_history") =>
             /\ last'.outcome.kind = "text"
             /\ last'.outcome.shown = <<>>]_vars

\* clear_history has emptied a ledger that had records
C2_Witness ==
    /\ LastIs("clear_history")
    /\ now > 0
    /\ calculation_history = <<>>

\* C3: every invocation other than clear_history keeps the ledger as a
\* prefix of the new ledger, and a successful calculate or
\* advanced_calculate makes it exactly one record longer.
C3_AppendOnly ==
    [][last'.name # "clear_history" =>
          /\ IsPrefix(calculation_history, calculation_history')
          /\ (last'.name \in {"calculate", "advanced_calculate"}
                 /\ last'.outcome.tag = "ok") =>
                Len(calculation_history') = Len(calculation_history) + 1]_vars

\* a successful calculation was appended behind an older record
C3_Witness ==
    /\ last.name \in {"calculate", "advanced_calculate"}
    /\ last.outcome.tag = "ok"
    /\ Len(calculation_history) >= 2
    /\ calculation_history[Len(calculation_history)].expression
           = last.outcome.shown[1].expression
    /\ calculation_history[1].expression
           # calculation_history[Len(calculation_history)].expression

\* the documented character set [0-9a-z+-*/(). ]: digits, lowercase
\* letters, the four operators, parentheses, dot, space
ClaimChars ==
    Digits \cup LowerLetters \cup {"+", "-", "*", "/", "(", ")", ".", " "}

HasForeignChar(expression) ==
    \E i \in 1..Len(expression) : expression[i] \notin ClaimChars

C5_LedgerOpsNeverRaise ==
    last.name \in {"get_history", "clear_history"} =>
        last.outcome.kind = "text"

\* C6: get_history with limit = 0 returns no records.
C6_LimitZeroEmpty ==
    (LastIs("get_history") /\ LimitGiven
        /\ last.arguments.limit = PyInt(0)) =>
        /\ last.outcome.kind = "text"
        /\ last.outcome.shown = <<>>

\* C7: get_history leaves the ledger unchanged, and repeating it with the
\* same arguments right away returns the same result.
C7_GetHistoryReadOnly ==
    [][last'.name = "get_history" =>
          /\ calculation_history' = calculation_history
          /\ (last.name = "get_history"
                 /\ DOMAIN last.arguments = DOMAIN last'.arguments
                 /\ Get(last.arguments, "limit", PyInt(DefaultLimit))
                        = Get(last'.arguments, "limit", PyInt(DefaultLimit)))
                => last'.outcome = last.outcome]_vars

\* get_history has shown records of a ledger that still holds them
C7_Witness ==
    /\ LastIs("get_history")
    /\ Len(calculation_history) >= 2
    /\ Len(last.outcome.shown) >= 2

\* C8: a calculate or advanced_calculate that returns an error, and an
\* unknown tool name, leave the ledger as it was.
C8_ErrorsLeaveLedger ==
    [][((last'.name \in {"calculate", "advanced_calculate"}
            /\ last'.outcome.tag = "error")
        \/ last'.outcome.tag = "unknown")
       => calculation_history' = calculation_history]_vars

\* an error result was returned while the ledger held records
C8_Witness ==
    /\ last.name \in {"calculate", "advanced_calculate"}
    /\ last.outcome.tag = "error"
    /\ calculation_history # <<>>

\* C9: no ledger record has an absent (None) result.
C9_ResultsNumeric ==
    \A i \in 1..Len(calculation_history) :
        calculation_history[i].result.t \in {"int", "float"}

\* C10: get_history with an integer limit < 0 reports an error or returns
\* no records.
C10_NegativeLimit ==
    (LastIs("get_history") /\ LimitGiven
        /\ last.arguments.limit.t = "int" /\ last.arguments.limit.n < 0) =>
        \/ last.outcome.kind = "raise"
        \/ last.outcome.tag = "error"
        \/ last.outcome.shown = <<>>

====
